---- MODULE Spec2Model ----
(***************************************************************************)
(* Model of the NFS-e page layout engine: PositionManager                  *)
(* (pdf/nfse/layout_refactored.py), the Layout accessors that read it      *)
(* (pdf/nfse/layout.py) and the rendering pass that drives both            *)
(* (pdf/nfse/nfse.py, Nfse.__init__ and the _draw_* methods).              *)
(*                                                                         *)
(* Numbers.  The program computes with Python floats.  Every quantity of   *)
(* the layout is a rational with denominator dividing 289 = 17 * 17,       *)
(* because PX_TO_MM = 210 / 595 = 6 / 17 and no value is scaled by it more *)
(* than twice; halves of the margins and divisions by PX_TO_MM add the     *)
(* factors 2 and 3.  A number v of the program is therefore represented by *)
(* the integer v * SCALE, SCALE = 2 * 3 * 289, and the arithmetic of the   *)
(* model is exact: IEEE-754 rounding (at most one unit in the last place   *)
(* per operation) is not represented.                                      *)
(***************************************************************************)
EXTENDS Integers, Sequences, FiniteSets, TLC

VARIABLES positions, exclude_sections, calls, ret, pc, doc, log

vars == <<positions, exclude_sections, calls, ret, pc, doc, log>>

(***************************************************************************)
(* Fixed-point representation                                              *)
(***************************************************************************)
SCALE == 1734

Num(n) == n * SCALE

\* v * PX_TO_MM, with PX_TO_MM = 210 / 595 (layout_refactored.py line 9)
PX_TO_MM(v) == (v * 210) \div 595

\* v / PX_TO_MM
DIV_PX_TO_MM(v) == (v * 595) \div 210

(***************************************************************************)
(* Module constants of layout_refactored.py                                *)
(***************************************************************************)
BASE_HEIGHT == PX_TO_MM(Num(40))

SVG_OFFSET_Y == Num(65)

SVG_POSITIONS_ALL ==
  [info_nota |-> Num(100), emitente |-> Num(180), tomador |-> Num(270),
   intermediario |-> Num(350), servico |-> Num(425), tb_municipal |-> Num(500),
   trib_federal |-> Num(610), valor_nfse |-> Num(680), totais |-> Num(740),
   info_complementar |-> Num(780)]

SVG_HEIGHTS_ALL ==
  [info_nota |-> Num(80), emitente |-> Num(90), tomador |-> Num(80),
   intermediario |-> Num(75), servico |-> Num(75), tb_municipal |-> Num(110),
   trib_federal |-> Num(70), valor_nfse |-> Num(60), totais |-> Num(40),
   info_complementar |-> Num(50)]

ORDEM_SECOES ==
  <<"info_nota", "emitente", "tomador", "intermediario", "servico",
    "tb_municipal", "trib_federal", "valor_nfse", "totais",
    "info_complementar">>

Secoes == {ORDEM_SECOES[i] : i \in 1..Len(ORDEM_SECOES)}

\* ORDEM_SECOES.index(section); 0 stands for the ValueError of list.index
Index(section) ==
  IF section \in Secoes
  THEN CHOOSE i \in 1..Len(ORDEM_SECOES) : ORDEM_SECOES[i] = section
  ELSE 0

_svg_to_pdf_y(svg_y, top) == top + PX_TO_MM(svg_y - SVG_OFFSET_Y)

\* Variant of _pdf_to_svg_y: the design offset is not added back
_pdf_to_svg_y_NoOffset(pdf_y, top) == DIV_PX_TO_MM(pdf_y - top)

_pdf_to_svg_y(pdf_y, top) == SVG_OFFSET_Y + DIV_PX_TO_MM(pdf_y - top)

(***************************************************************************)
(* Page geometry handed to Layout by Nfse.__init__: the margins of         *)
(* NfseConfig (config.py, Margins) and the A4 width less both margins.     *)
(***************************************************************************)
left_margin == Num(3)

top_margin == Num(3)

epw == Num(210) - left_margin - Num(3)

(***************************************************************************)
(* PositionManager.positions: a dict  name -> {x, y, height}               *)
(***************************************************************************)
EmptyPositions == [n \in {} |-> [x |-> 0, y |-> 0, height |-> 0]]

Put(pos, name, entry) ==
  [n \in (DOMAIN pos) \cup {name} |-> IF n = name THEN entry ELSE pos[n]]

\* Variant of base_position: the first section starts at the top edge of
\* the design
base_position_Top == Num(65)

base_position == Num(100)

base_height == Num(80)

\* Variant of SectionHeight: an excluded section takes no room at all
SectionHeight_Zero(i, excluded) ==
  IF i = 1 THEN base_height
  ELSE IF ORDEM_SECOES[i] \notin excluded
       THEN SVG_HEIGHTS_ALL[ORDEM_SECOES[i]]
       ELSE 0

\* Height given to section number i by the first loop of
\* _create_general_layout, in the unit of the loop (design pixels).
SectionHeight(i, excluded) ==
  IF i = 1 THEN base_height
  ELSE IF ORDEM_SECOES[i] \notin excluded
       THEN SVG_HEIGHTS_ALL[ORDEM_SECOES[i]]
       ELSE BASE_HEIGHT

\* The first loop of _create_general_layout, from section number i on;
\* next_y is the running end of the previous section.
RECURSIVE StackSections(_, _, _, _, _)
StackSections(pos, i, next_y, left, excluded) ==
  IF i > Len(ORDEM_SECOES) THEN pos
  ELSE LET height == SectionHeight(i, excluded)
           y == IF i = 1 THEN base_position ELSE next_y
       IN StackSections(
            Put(pos, ORDEM_SECOES[i], [x |-> left, y |-> y, height |-> height]),
            i + 1, y + height, left, excluded)

\* The back-filled header entry.
HeaderEntry(pos, top, left) ==
  [x |-> left, y |-> top, height |-> PX_TO_MM(pos["info_nota"].y - 0)]

\* Variant of ConvertEntry: the heights are left in design pixels
ConvertEntry_NoHeight(section, entry, top) ==
  [x |-> entry.x, y |-> _svg_to_pdf_y(entry.y, top), height |-> entry.height]

\* The final loop of _create_general_layout: every stored y goes through
\* _svg_to_pdf_y, every height but the header's is scaled.
ConvertEntry(section, entry, top) ==
  [x |-> entry.x,
   y |-> _svg_to_pdf_y(entry.y, top),
   height |-> IF section # "header" THEN PX_TO_MM(entry.height)
              ELSE entry.height]

_create_general_layout(top, left, excluded) ==
  LET stacked == StackSections(EmptyPositions, 1, 0, left, excluded)
      withHeader == Put(stacked, "header", HeaderEntry(stacked, top, left))
  IN [n \in DOMAIN withHeader |-> ConvertEntry(n, withHeader[n], top)]

calculate_positions(excluded) ==
  _create_general_layout(top_margin, left_margin, excluded)

(***************************************************************************)
(* The fixed layout of layout_refactored.py for a document with every      *)
(* section: each section at its place in the design                        *)
(***************************************************************************)
\* _calculate_heights(SVG_POSITIONS_ALL): the distance to the next section,
\* 40 px for the last one
_calculate_heights(svg_positions) ==
  [n \in Secoes |->
     IF Index(n) < Len(ORDEM_SECOES)
     THEN PX_TO_MM(svg_positions[ORDEM_SECOES[Index(n) + 1]]
                   - svg_positions[n])
     ELSE PX_TO_MM(Num(40))]

_create_layout_all(top, left) ==
  LET header_height == PX_TO_MM(SVG_POSITIONS_ALL["info_nota"] - 0)
      heights == _calculate_heights(SVG_POSITIONS_ALL)
  IN [n \in Secoes \cup {"header"} |->
        IF n = "header"
        THEN [x |-> left, y |-> top, height |-> header_height]
        ELSE [x |-> left, y |-> _svg_to_pdf_y(SVG_POSITIONS_ALL[n], top),
              height |-> heights[n]]]

(***************************************************************************)
(* PositionManager._recalculate_positions                                  *)
(***************************************************************************)
\* Variant of NewHeight: the extra height replaces the height
NewHeight_Overwrite(curr_height, data) == data

\* line 441: the grown section's height
NewHeight(curr_height, data) == curr_height + data

\* Variant of Cascade: next_y is not advanced by the height of the section
\* just placed
RECURSIVE Cascade_NoAdvance(_, _, _)
Cascade_NoAdvance(pos, i, next_y) ==
  IF i > Len(ORDEM_SECOES) THEN pos
  ELSE Cascade_NoAdvance([pos EXCEPT ![ORDEM_SECOES[i]].y = next_y],
                         i + 1, next_y)

\* lines 447-450: every section from number i on is put at next_y, the end
\* of the section before it
RECURSIVE Cascade(_, _, _)
Cascade(pos, i, next_y) ==
  IF i > Len(ORDEM_SECOES) THEN pos
  ELSE LET section_name == ORDEM_SECOES[i]
           moved == [pos EXCEPT ![section_name].y = next_y]
       IN Cascade(moved, i + 1, next_y + moved[section_name].height)

\* Variant of CascadeStart: range(idx, ...) instead of range(idx + 1, ...)
CascadeStart_Self(idx) == idx

\* First section number the cascade of a growth of section number idx visits
CascadeStart(idx) == idx + 1

\* Variant of RecalculateSection: the sections after the grown one are put
\* at their place in the design, moved down by the extra height
RecalculateSection_FromTemplate(pos, section, data) ==
  LET idx == Index(section)
      grown == [pos EXCEPT ![section].height = NewHeight(@, data)]
  IN [n \in DOMAIN grown |->
        IF Index(n) > idx
        THEN [grown[n] EXCEPT
                !.y = _svg_to_pdf_y(SVG_POSITIONS_ALL[n], top_margin) + data]
        ELSE grown[n]]

\* lines 435-450: the body of the loop for one entry of the dict; only
\* used for a section of ORDEM_SECOES
RecalculateSection(pos, section, data) ==
  LET idx == Index(section)
      curr_y == pos[section].y
      curr_height == pos[section].height
      grown == [pos EXCEPT ![section].height = NewHeight(curr_height, data)]
      next_y == curr_y + grown[section].height
  IN Cascade(grown, CascadeStart(idx), next_y)

\* Variant of RecalculateFrom: an unknown name is skipped without an error
RECURSIVE RecalculateFrom_Skip(_, _, _)
RecalculateFrom_Skip(pos, sections, k) ==
  IF k > Len(sections) THEN [positions |-> pos, raised |-> FALSE]
  ELSE IF Index(sections[k].name) = 0
       THEN RecalculateFrom_Skip(pos, sections, k + 1)
       ELSE RecalculateFrom_Skip(
              RecalculateSection(pos, sections[k].name, sections[k].data),
              sections, k + 1)

\* lines 434-450: the loop over the entries of the dict, in insertion order.
\* ORDEM_SECOES.index raises ValueError at the first unknown name; what the
\* earlier entries did stays done.
RECURSIVE RecalculateFrom(_, _, _)
RecalculateFrom(pos, sections, k) ==
  IF k > Len(sections) THEN [positions |-> pos, raised |-> FALSE]
  ELSE IF Index(sections[k].name) = 0
       THEN [positions |-> pos, raised |-> TRUE]
       ELSE RecalculateFrom(
              RecalculateSection(pos, sections[k].name, sections[k].data),
              sections, k + 1)

_recalculate_positions(pos, sections) == RecalculateFrom(pos, sections, 1)

(***************************************************************************)
(* Inputs of the PositionManager specification                             *)
(***************************************************************************)
\* Longest sequence of _recalculate_positions calls explored
MaxCalls == 2

\* Section lists handed to calculate_positions
ExcludeSets ==
  {{}} \cup {{s} : s \in Secoes} \cup {{"tomador", "intermediario"}}

\* Names handed to _recalculate_positions: the ten sections, the registered
\* pseudo-section and a name nobody registered
GrowNames == Secoes \cup {"header", "rodape"}

\* Extra heights in mm (all >= 0)
Deltas == {Num(0), Num(4), Num(6)}

Entry(name, data) == [name |-> name, data |-> data]

\* Dicts with one entry, and a few with two
SectionDicts ==
  {<<Entry(n, d)>> : n \in GrowNames, d \in Deltas}
  \cup UNION {{<<Entry(n, Num(4)), Entry(m, Num(6))>> :
                   m \in {"tomador", "servico", "rodape"} \ {n}} :
                n \in {"tomador", "servico", "rodape"}}

\* Python's None, where a text is expected
None == "<None>"

NoRet == [op |-> "none"]

NoDoc == [kind |-> "none"]

(***************************************************************************)
(* Specification of the PositionManager driven through its interface      *)
(***************************************************************************)
Init ==
  /\ exclude_sections \in ExcludeSets
  /\ positions = calculate_positions(exclude_sections)
  /\ calls = <<>>
  /\ ret = NoRet
  /\ pc = "api"
  /\ doc = NoDoc
  /\ log = <<>>

Recalculate(sections) ==
  /\ pc = "api"
  /\ Len(calls) < MaxCalls
  /\ LET r == _recalculate_positions(positions, sections)
     IN /\ positions' = r.positions
        /\ calls' = Append(calls, [sections |-> sections, pre |-> positions,
                                   raised |-> r.raised])
  /\ ret' = NoRet
  /\ UNCHANGED <<exclude_sections, pc, doc, log>>

Next == \E sections \in SectionDicts : Recalculate(sections)

Spec == Init /\ [][Next]_vars

(***************************************************************************)
(* Layout (layout.py): the accessors that read the PositionManager.  A     *)
(* result is a record; raised = TRUE stands for the ValueError.            *)
(***************************************************************************)
internal_left_margin == left_margin + (left_margin \div 2)

second_column_margin == internal_left_margin + Num(45)

third_column_margin == second_column_margin + Num(55)

fourth_column_margin == third_column_margin + Num(55)

ValueError == [raised |-> TRUE]

\* Variant of get_section_y: an unregistered name gets the page top
get_section_y_Default(pos, section_name) ==
  IF section_name \in DOMAIN pos
  THEN [raised |-> FALSE, y |-> pos[section_name].y]
  ELSE [raised |-> FALSE, y |-> top_margin]

\* Variant of get_section_y: the origin is taken relative to the element
\* that was returned last
get_section_y_Cursor(pos, section_name) ==
  IF section_name \in DOMAIN pos
  THEN [raised |-> FALSE,
        y |-> IF ret # NoRet /\ ~ret.result.raised
              THEN ret.result.y + Num(4) ELSE pos[section_name].y]
  ELSE ValueError

get_section_y(pos, section_name) ==
  IF section_name \in DOMAIN pos
  THEN [raised |-> FALSE, y |-> pos[section_name].y]
  ELSE ValueError

\* Layout._svg_to_pdf_y
Layout_svg_to_pdf_y(svg_y) == top_margin + PX_TO_MM(svg_y - Num(65))

\* HorizontalLines.VECTOR_POSITIONS
VECTOR_POSITIONS ==
  [info_complementar |-> Num(780), totais |-> Num(740),
   valor_nfse |-> Num(680), trib_federal |-> Num(610),
   tb_municipal |-> Num(500), servico |-> Num(425),
   intermediario |-> Num(350), tomador |-> Num(270),
   emitente |-> Num(180), info_nota |-> Num(100)]

LineElement(x, y, width, value) ==
  [raised |-> FALSE, x |-> x, y |-> y, width |-> width, value |-> value,
   x2 |-> x + width, y2 |-> y]

\* Variant of get_horizontal_line: the rule is put at its place in the
\* static template (HorizontalLines.VECTOR_POSITIONS)
get_horizontal_line_Static(pos, line_name) ==
  IF line_name \notin DOMAIN VECTOR_POSITIONS
  THEN ValueError
  ELSE LineElement(left_margin + (left_margin \div 2),
                   Layout_svg_to_pdf_y(VECTOR_POSITIONS[line_name]),
                   epw - left_margin, line_name)

get_horizontal_line(pos, line_name) ==
  LET r == get_section_y(pos, line_name)
      x == left_margin + (left_margin \div 2)
  IN IF ~r.raised
     THEN LineElement(x, r.y, epw - left_margin, line_name)
     ELSE IF line_name \notin DOMAIN VECTOR_POSITIONS
          THEN ValueError
          ELSE LineElement(x, Layout_svg_to_pdf_y(VECTOR_POSITIONS[line_name]),
                           epw - left_margin, line_name)

\* TextElement.__init__: line_height falls back to height
TextElement(x, y, value, width, height) ==
  [raised |-> FALSE, x |-> x, y |-> y, value |-> value, width |-> width,
   height |-> height, line_height |-> height]

\* Rows of a three-row section (classes Tomador, Intermediario, Servico):
\* the Y of the labels and values of each row, from the section origin
Rows(title_y_mm, dist_line_svg, value_offset_svg, third_factor) ==
  LET DIST_LINE_MM == PX_TO_MM(dist_line_svg)
      VALUE_OFFSET_MM == PX_TO_MM(value_offset_svg)
      first_label == title_y_mm
      first_value == first_label + VALUE_OFFSET_MM
      second_label == first_label + DIST_LINE_MM
      second_value == first_value + DIST_LINE_MM
  IN [TITLE_SVG_Y |-> title_y_mm,
      FIRST_LINE_LABEL_SVG_Y |-> first_label,
      FIRST_LINE_VALUE_SVG_Y |-> first_value,
      SECOND_LINE_LABEL_SVG_Y |-> second_label,
      SECOND_LINE_VALUE_SVG_Y |-> second_value,
      THIRD_LINE_LABEL_SVG_Y |-> second_label + DIST_LINE_MM * third_factor,
      THIRD_LINE_VALUE_SVG_Y |-> second_value + DIST_LINE_MM * third_factor]

Tomador(title_y_mm) == Rows(title_y_mm, Num(26), Num(10), 1)

Intermediario(title_y_mm) == Rows(title_y_mm, Num(26), Num(10), 1)

Servico(title_y_mm) == Rows(title_y_mm, Num(18), Num(10), 2)

\* 0 as width stands for width=None
get_tomador_endereco_value(pos, value) ==
  LET r == get_section_y(pos, "tomador")
  IN IF r.raised THEN ValueError
     ELSE TextElement(internal_left_margin,
                      Tomador(r.y).THIRD_LINE_VALUE_SVG_Y, value,
                      third_column_margin - internal_left_margin - Num(2),
                      Num(4))

get_intermediario_endereco_value(pos, value) ==
  LET r == get_section_y(pos, "intermediario")
  IN IF r.raised THEN ValueError
     ELSE TextElement(internal_left_margin,
                      Intermediario(r.y).THIRD_LINE_VALUE_SVG_Y, value,
                      0, Num(4))

get_servico_desc_value(pos, value) ==
  LET r == get_section_y(pos, "servico")
  IN IF r.raised THEN ValueError
     ELSE TextElement(internal_left_margin,
                      Servico(r.y).THIRD_LINE_VALUE_SVG_Y, value,
                      0, Num(4))

\* class DadosEmitente: the rows the e-mail accessor reads
DadosEmitente(title_y_mm) ==
  LET DIST_LINE_MM == PX_TO_MM(Num(22))
      SUBTITLE_OFFSET_MM == PX_TO_MM(Num(10))
      subtitle == title_y_mm + SUBTITLE_OFFSET_MM
  IN [TITLE_SVG_Y |-> title_y_mm,
      SUBTITLE_SVG_Y |-> subtitle,
      SECOND_LINE_LABEL_SVG_Y |-> title_y_mm + DIST_LINE_MM,
      SECOND_LINE_VALUE_SVG_Y |-> subtitle + DIST_LINE_MM]

get_emitente_email_value(pos, value) ==
  LET r == get_section_y(pos, "emitente")
  IN IF r.raised THEN ValueError
     ELSE TextElement(third_column_margin,
                      DadosEmitente(r.y).SECOND_LINE_VALUE_SVG_Y,
                      "FERNANDA.NEVES@JEXPERTS.COM.BR",
                      (left_margin + epw) - third_column_margin - Num(2),
                      Num(4))

get_tomador_email_value(pos, value) ==
  LET r == get_section_y(pos, "tomador")
  IN IF r.raised THEN ValueError
     ELSE TextElement(third_column_margin,
                      Tomador(r.y).SECOND_LINE_VALUE_SVG_Y, value,
                      (left_margin + epw) - third_column_margin - Num(2),
                      Num(4))

\* The e-mail accessor of a section
EmailValue(pos, sec, value) ==
  IF sec = "emitente" THEN get_emitente_email_value(pos, value)
  ELSE get_tomador_email_value(pos, value)

\* The accessor whose line height the renderer measures for a section
MeasuredValue(pos, sec, value) ==
  IF sec = "tomador" THEN get_tomador_endereco_value(pos, value)
  ELSE IF sec = "intermediario"
       THEN get_intermediario_endereco_value(pos, value)
       ELSE get_servico_desc_value(pos, value)

(***************************************************************************)
(* Header and InfoNote (layout.py): descriptors placed by constants of the *)
(* design.  A decimal literal of the design that is not on the fixed-      *)
(* point grid is taken at the grid point below it (Dec), less than         *)
(* 1 / SCALE design pixels away.                                           *)
(***************************************************************************)
\* The decimal literal n / d
Dec(n, d) == (n * SCALE) \div d

\* Layout._svg_to_pdf_x
Layout_svg_to_pdf_x(svg_x) == left_margin + PX_TO_MM(svg_x - Num(65))

\* Layout._svg_to_pdf_size
Layout_svg_to_pdf_size(svg_size) == PX_TO_MM(svg_size)

\* Element.__init__
Element(x, y, value, width, height) ==
  [raised |-> FALSE, x |-> x, y |-> y, value |-> value, width |-> width,
   height |-> height]

\* class Header
Header ==
  [LOGO_SVG_X |-> Dec(741732, 10000), LOGO_SVG_Y |-> Dec(724925, 10000),
   LOGO_SVG_WIDTH |-> Dec(113386, 1000), LOGO_SVG_HEIGHT |-> Dec(226772, 10000),
   TEXT1_SVG_Y |-> Dec(76395, 1000), TEXT2_SVG_Y |-> Dec(855576, 10000),
   PREFEITURA_SVG_Y |-> Dec(76395, 1000), TEXT_CELL_HEIGHT |-> Num(5)]

\* class InfoNote
InfoNote ==
  LET CHAVE_LABEL_SVG_Y == Num(105)
      CHAVE_VALUE_SVG_Y == Num(115)
      DIST_LINE == Num(22)
  IN [QR_CODE_SVG_WIDTH |-> Num(50), QR_CODE_SVG_HEIGHT |-> Num(50),
      AUTH_TEXT_SVG_Y |-> Num(120),
      CHAVE_LABEL_SVG_Y |-> CHAVE_LABEL_SVG_Y,
      CHAVE_VALUE_SVG_Y |-> CHAVE_VALUE_SVG_Y,
      NUMERO_LABEL_SVG_Y |-> CHAVE_LABEL_SVG_Y + DIST_LINE,
      NUMERO_VALUE_SVG_Y |-> CHAVE_VALUE_SVG_Y + DIST_LINE,
      COMPETENCIA_LABEL_SVG_Y |-> CHAVE_LABEL_SVG_Y + DIST_LINE,
      COMPETENCIA_VALUE_SVG_Y |-> CHAVE_VALUE_SVG_Y + DIST_LINE,
      DATA_LABEL_SVG_Y |-> CHAVE_LABEL_SVG_Y + DIST_LINE,
      DATA_VALUE_SVG_Y |-> CHAVE_VALUE_SVG_Y + DIST_LINE,
      DPS_LABEL_SVG_Y |-> CHAVE_LABEL_SVG_Y + DIST_LINE * 2,
      DPS_VALUE_SVG_Y |-> CHAVE_VALUE_SVG_Y + DIST_LINE * 2,
      SERIE_DPS_LABEL_SVG_Y |-> CHAVE_LABEL_SVG_Y + DIST_LINE * 2,
      SERIE_DPS_VALUE_SVG_Y |-> CHAVE_VALUE_SVG_Y + DIST_LINE * 2,
      DATE_DPS_LABEL_SVG_Y |-> CHAVE_LABEL_SVG_Y + DIST_LINE * 2,
      DATE_DPS_VALUE_SVG_Y |-> CHAVE_VALUE_SVG_Y + DIST_LINE * 2,
      QR_LABEL_SVG_Y |-> CHAVE_VALUE_SVG_Y + DIST_LINE * 2,
      QR_VALUE_SVG_Y |-> CHAVE_VALUE_SVG_Y]

get_header_logo(pos) ==
  Element(Layout_svg_to_pdf_x(Header.LOGO_SVG_X),
          Layout_svg_to_pdf_y(Header.LOGO_SVG_Y + Num(2)), None,
          Layout_svg_to_pdf_size(Header.LOGO_SVG_WIDTH),
          Layout_svg_to_pdf_size(Header.LOGO_SVG_HEIGHT))

get_header_text1(pos) ==
  TextElement(left_margin, Layout_svg_to_pdf_y(Header.TEXT1_SVG_Y),
              "DANFSe v1.0", epw, Header.TEXT_CELL_HEIGHT)

get_header_text2(pos) ==
  TextElement(left_margin, Layout_svg_to_pdf_y(Header.TEXT2_SVG_Y),
              "Documento Auxiliar da NFS-e", epw, Header.TEXT_CELL_HEIGHT)

get_header_prefeitura(pos, nome_municipio) ==
  LET text == IF nome_municipio # "" /\ nome_municipio # None
              THEN "Prefeitura Municipal de " \o nome_municipio
              ELSE "Prefeitura Municipal"
      margin_right == Num(5)
      text_width == Num(60)
  IN TextElement(left_margin + epw - text_width - margin_right,
                 Layout_svg_to_pdf_y(Header.PREFEITURA_SVG_Y), text,
                 text_width, Header.TEXT_CELL_HEIGHT)

get_info_note_qr_code(pos) ==
  Element(fourth_column_margin + Num(15),
          Layout_svg_to_pdf_y(InfoNote.QR_VALUE_SVG_Y - Num(10)), None,
          Layout_svg_to_pdf_size(InfoNote.QR_CODE_SVG_WIDTH),
          Layout_svg_to_pdf_size(InfoNote.QR_CODE_SVG_HEIGHT))

get_info_note_auth_text(pos) ==
  TextElement(left_margin, Layout_svg_to_pdf_y(InfoNote.AUTH_TEXT_SVG_Y),
              "Autenticidade", epw, Num(4))

\* The label and value accessors of the info note: a column and a row of
\* class InfoNote each; 0 as width stands for width=None
InfoNoteField(x, svg_y, value) ==
  TextElement(x, Layout_svg_to_pdf_y(svg_y), value, 0, Num(4))

get_info_note_chave_label(pos) ==
  InfoNoteField(internal_left_margin, InfoNote.CHAVE_LABEL_SVG_Y,
                "Chave de Acesso da NFS-e")

get_info_note_chave_value(pos, value) ==
  InfoNoteField(internal_left_margin, InfoNote.CHAVE_VALUE_SVG_Y, value)

get_info_note_numero_label(pos) ==
  InfoNoteField(internal_left_margin, InfoNote.NUMERO_LABEL_SVG_Y,
                "Numero da NFS-e")

get_info_note_numero_value(pos, value) ==
  InfoNoteField(internal_left_margin, InfoNote.NUMERO_VALUE_SVG_Y, value)

get_info_note_competencia_label(pos) ==
  InfoNoteField(second_column_margin, InfoNote.COMPETENCIA_LABEL_SVG_Y,
                "Competencia da NFS-e")

get_info_note_competencia_value(pos, value) ==
  InfoNoteField(second_column_margin, InfoNote.COMPETENCIA_VALUE_SVG_Y, value)

get_info_note_data_label(pos) ==
  InfoNoteField(third_column_margin, InfoNote.DATA_LABEL_SVG_Y,
                "Data e Hora da emissao da NFS-e")

get_info_note_data_value(pos, value) ==
  InfoNoteField(third_column_margin, InfoNote.DATA_VALUE_SVG_Y, value)

get_info_note_number_dps_label(pos) ==
  InfoNoteField(internal_left_margin, InfoNote.DPS_LABEL_SVG_Y,
                "Numero da DPS")

get_info_note_number_dps_value(pos, value) ==
  InfoNoteField(internal_left_margin, InfoNote.DPS_VALUE_SVG_Y, value)

get_info_note_serie_dps_label(pos) ==
  InfoNoteField(second_column_margin, InfoNote.SERIE_DPS_LABEL_SVG_Y,
                "Serie da DPS")

get_info_note_serie_dps_value(pos, value) ==
  InfoNoteField(second_column_margin, InfoNote.SERIE_DPS_VALUE_SVG_Y, value)

get_info_note_date_dps_label(pos) ==
  InfoNoteField(third_column_margin, InfoNote.DATE_DPS_LABEL_SVG_Y,
                "Data e Hora da emissao da DPS")

get_info_note_date_dps_value(pos, value) ==
  InfoNoteField(third_column_margin, InfoNote.DATE_DPS_VALUE_SVG_Y, value)

\* line_height is left at its default
get_info_note_qr_label(pos) ==
  [TextElement(fourth_column_margin - Num(4),
               Layout_svg_to_pdf_y(InfoNote.QR_LABEL_SVG_Y),
               "A autenticidade desta NFS-e pode ser verificada", Num(60),
               Num(4)) EXCEPT !.line_height = Num(2)]

HeaderAccessors ==
  {"get_header_logo", "get_header_text1", "get_header_text2",
   "get_header_prefeitura"}

InfoNoteAccessors ==
  {"get_info_note_qr_code", "get_info_note_auth_text",
   "get_info_note_chave_label", "get_info_note_chave_value",
   "get_info_note_numero_label", "get_info_note_numero_value",
   "get_info_note_competencia_label", "get_info_note_competencia_value",
   "get_info_note_data_label", "get_info_note_data_value",
   "get_info_note_number_dps_label", "get_info_note_number_dps_value",
   "get_info_note_serie_dps_label", "get_info_note_serie_dps_value",
   "get_info_note_date_dps_label", "get_info_note_date_dps_value",
   "get_info_note_qr_label"}

\* Variant of StaticDescriptor: the descriptor hangs from the rule of the
\* section below the info note
StaticDescriptor_Anchored(pos, name, value) ==
  [x |-> left_margin, y |-> pos["emitente"].y - Num(4), raised |-> FALSE,
   value |-> value, width |-> 0, height |-> Num(4)]

\* Layout.<name>(value) for a header or info-note accessor; value is only
\* taken by the accessors that have the parameter
StaticDescriptor(pos, name, value) ==
  CASE name = "get_header_logo" -> get_header_logo(pos)
    [] name = "get_header_text1" -> get_header_text1(pos)
    [] name = "get_header_text2" -> get_header_text2(pos)
    [] name = "get_header_prefeitura" -> get_header_prefeitura(pos, value)
    [] name = "get_info_note_qr_code" -> get_info_note_qr_code(pos)
    [] name = "get_info_note_auth_text" -> get_info_note_auth_text(pos)
    [] name = "get_info_note_chave_label" -> get_info_note_chave_label(pos)
    [] name = "get_info_note_chave_value" ->
         get_info_note_chave_value(pos, value)
    [] name = "get_info_note_numero_label" -> get_info_note_numero_label(pos)
    [] name = "get_info_note_numero_value" ->
         get_info_note_numero_value(pos, value)
    [] name = "get_info_note_competencia_label" ->
         get_info_note_competencia_label(pos)
    [] name = "get_info_note_competencia_value" ->
         get_info_note_competencia_value(pos, value)
    [] name = "get_info_note_data_label" -> get_info_note_data_label(pos)
    [] name = "get_info_note_data_value" ->
         get_info_note_data_value(pos, value)
    [] name = "get_info_note_number_dps_label" ->
         get_info_note_number_dps_label(pos)
    [] name = "get_info_note_number_dps_value" ->
         get_info_note_number_dps_value(pos, value)
    [] name = "get_info_note_serie_dps_label" ->
         get_info_note_serie_dps_label(pos)
    [] name = "get_info_note_serie_dps_value" ->
         get_info_note_serie_dps_value(pos, value)
    [] name = "get_info_note_date_dps_label" ->
         get_info_note_date_dps_label(pos)
    [] name = "get_info_note_date_dps_value" ->
         get_info_note_date_dps_value(pos, value)
    [] name = "get_info_note_qr_label" -> get_info_note_qr_label(pos)

(***************************************************************************)
(* Specification of the Layout interface: accessor calls interleaved with  *)
(* the growth calls the renderer makes                                     *)
(***************************************************************************)
\* Names handed to the accessors that take a name
AccessorNames == Secoes \cup {"header", "rodape", "cabecalho"}

MeasuredSections == {"tomador", "intermediario", "servico"}

\* Growth calls: the ones the renderer makes, and one of the first section
LayoutDicts ==
  {<<Entry(n, d)>> : n \in MeasuredSections, d \in {Num(0), Num(4)}}
  \cup {<<Entry("info_nota", Num(4))>>}

LayoutInit ==
  /\ exclude_sections \in SUBSET {"tomador", "intermediario"}
  /\ positions = calculate_positions(exclude_sections)
  /\ calls = <<>>
  /\ ret = NoRet
  /\ pc = "api"
  /\ doc = NoDoc
  /\ log = <<>>

\* Is the call op(name, value) the call that returned last
Repeated(op, name, value) ==
  ret # NoRet /\ ret.op = op /\ ret.name = name /\ ret.value = value

\* Variant of Return: the accessor moves the origin of the section it read
\* below the element it returned, like a drawing cursor
Return_Advance(op, name, value, result) ==
  /\ pc = "api"
  /\ ret' = [op |-> op, name |-> name, value |-> value, result |-> result]
  /\ log' = IF Repeated(op, name, value) THEN <<"again">> ELSE <<>>
  /\ positions' = IF name \in DOMAIN positions
                  THEN [positions EXCEPT ![name].y = @ + Num(4)]
                  ELSE positions
  /\ UNCHANGED <<exclude_sections, calls, pc, doc>>

\* An accessor call returns (or raises): ret is the call and what the
\* caller gets, log tells whether the same call was made just before, with
\* no growth call in between.  No statement of an accessor assigns to the
\* PositionManager.
Return(op, name, value, result) ==
  /\ pc = "api"
  /\ ret' = [op |-> op, name |-> name, value |-> value, result |-> result]
  /\ log' = IF Repeated(op, name, value) THEN <<"again">> ELSE <<>>
  /\ UNCHANGED <<positions, exclude_sections, calls, pc, doc>>

GetSectionY(name) ==
  Return("get_section_y", name, "", get_section_y(positions, name))

GetHorizontalLine(name) ==
  Return("get_horizontal_line", name, "",
         get_horizontal_line(positions, name))

GetMeasuredValue(sec, value) ==
  Return("get_value", sec, value, MeasuredValue(positions, sec, value))

GetEmailValue(sec, value) ==
  Return("get_email_value", sec, value, EmailValue(positions, sec, value))

GetStatic(name, value) ==
  /\ pc = "api"
  /\ ret' = [op |-> "get_static", name |-> name, value |-> value,
             result |-> StaticDescriptor(positions, name, value)]
  /\ log' = IF Repeated("get_static", name, value) THEN <<"again">> ELSE <<>>
  /\ UNCHANGED <<positions, exclude_sections, calls, pc, doc>>

LayoutNext ==
  \/ \E sections \in LayoutDicts : Recalculate(sections)
  \/ \E name \in AccessorNames : GetSectionY(name)
  \/ \E name \in AccessorNames : GetHorizontalLine(name)
  \/ \E sec \in MeasuredSections, value \in {"", "Rua A, 1 Centro"} :
       GetMeasuredValue(sec, value)
  \/ \E sec \in {"emitente", "tomador"}, value \in {"", "a@b.c"} :
       GetEmailValue(sec, value)
  \/ \E name \in HeaderAccessors \cup InfoNoteAccessors : GetStatic(name, "42")

LayoutSpec == LayoutInit /\ [][LayoutNext]_vars

(***************************************************************************)
(* Specification of the unit conversions of layout_refactored.py as pure   *)
(* functions: a conversion is applied to an input, and the opposite        *)
(* conversion to its result with the same top margin.  The inputs are      *)
(* values the fixed-point arithmetic converts without remainder: whole     *)
(* and half design pixels, whole millimetres and the origins of the        *)
(* initial layout, whole-millimetre margins.                               *)
(***************************************************************************)
\* Height of the design in pixels: inputs are 0 .. MaxDesignY
MaxDesignY == 842

\* Height of the page in mm: inputs are 0 .. MaxPageY
MaxPageY == 297

DesignYs ==
  {Num(k) : k \in 0..MaxDesignY} \cup {Num(k) \div 2 : k \in 0..MaxDesignY}

PageYs ==
  {Num(k) : k \in 0..MaxPageY}
  \cup {calculate_positions({})[n].y : n \in Secoes \cup {"header"}}

TopMargins == {Num(0), Num(3), Num(10)}

ConvInit ==
  /\ exclude_sections = {}
  /\ positions = calculate_positions(exclude_sections)
  /\ calls = <<>>
  /\ ret = NoRet
  /\ pc = "conv"
  /\ doc = NoDoc
  /\ log = <<>>

\* What a conversion call leaves: the function, its arguments and its
\* result; back tells that it was applied to the result of the opposite
\* conversion, whose argument was origin
Converted(op, arg, top, result, back, origin) ==
  /\ pc = "conv"
  /\ ret' = [op |-> op, arg |-> arg, top |-> top, result |-> result,
             back |-> back, origin |-> origin]
  /\ UNCHANGED <<positions, exclude_sections, calls, pc, doc, log>>

SvgToPdf(svg_y, top) ==
  /\ ret = NoRet
  /\ Converted("_svg_to_pdf_y", svg_y, top, _svg_to_pdf_y(svg_y, top), FALSE,
               svg_y)

PdfToSvg(pdf_y, top) ==
  /\ ret = NoRet
  /\ Converted("_pdf_to_svg_y", pdf_y, top, _pdf_to_svg_y(pdf_y, top), FALSE,
               pdf_y)

\* _pdf_to_svg_y(_svg_to_pdf_y(y, top), top)
SvgToPdfAndBack ==
  /\ ret # NoRet /\ ret.op = "_svg_to_pdf_y" /\ ~ret.back
  /\ Converted("_pdf_to_svg_y", ret.result, ret.top,
               _pdf_to_svg_y(ret.result, ret.top), TRUE, ret.arg)

\* _svg_to_pdf_y(_pdf_to_svg_y(m, top), top)
PdfToSvgAndBack ==
  /\ ret # NoRet /\ ret.op = "_pdf_to_svg_y" /\ ~ret.back
  /\ Converted("_svg_to_pdf_y", ret.result, ret.top,
               _svg_to_pdf_y(ret.result, ret.top), TRUE, ret.arg)

ConvNext ==
  \/ \E svg_y \in DesignYs, top \in TopMargins : SvgToPdf(svg_y, top)
  \/ \E pdf_y \in PageYs, top \in TopMargins : PdfToSvg(pdf_y, top)
  \/ SvgToPdfAndBack
  \/ PdfToSvgAndBack

ConvSpec == ConvInit /\ [][ConvNext]_vars

(***************************************************************************)
(* The rendering pass (nfse.py): Nfse.__init__ from the construction of    *)
(* the Layout on, and the _draw_* methods it calls.  A step is one run of  *)
(* statements of a method; op says what the run does with the layout:      *)
(*   static   descriptors that do not read the PositionManager             *)
(*   line     _draw_horizontal_line                                        *)
(*   fields   descriptors of the section are requested and drawn           *)
(*   gate     the test on _exclude_sections, and the "not identified"      *)
(*            label drawn when the section is excluded                     *)
(*   lookup   the municipality lookup (requests.get)                       *)
(*   measure  the wrapped lines are counted, the descriptor of the value   *)
(*            is requested for its line height                             *)
(*   grow     _recalculate_positions                                       *)
(*   value    the label and the wrapped value are drawn                    *)
(*   trylookup  the municipality lookup inside try/except Exception        *)
(* raises marks the steps that read an attribute __init__ sets only when   *)
(* the group of the XML is there, or that use a text that may be None,     *)
(* outside any try: absent data raises AttributeError or TypeError there.  *)
(***************************************************************************)
Step(label, op, sec, raises) ==
  [label |-> label, op |-> op, sec |-> sec, raises |-> raises]

_draw_horizontal_line(line_name) ==
  <<Step("line_" \o line_name, "line", line_name, FALSE)>>

_draw_header == <<Step("header", "static", "header", FALSE)>>

_draw_info_note == <<Step("info_note", "static", "info_nota", TRUE)>>

_draw_emitente ==
  <<Step("emitente_campos", "fields", "emitente", TRUE),
    Step("emitente_lookup", "lookup", "emitente", FALSE),
    Step("emitente_resto", "fields", "emitente", TRUE)>>

\* Variant of _draw_tomador: the section is grown once for the name and
\* once more for the address
_draw_tomador_Incremental ==
  <<Step("tomador_gate", "gate", "tomador", FALSE),
    Step("tomador_campos", "fields", "tomador", FALSE),
    Step("tomador_grow_nome", "grow", "tomador", FALSE),
    Step("tomador_medida", "measure", "tomador", FALSE),
    Step("tomador_grow", "grow", "tomador", FALSE),
    Step("tomador_endereco", "value", "tomador", FALSE),
    Step("tomador_lookup", "lookup", "tomador", TRUE),
    Step("tomador_resto", "fields", "tomador", FALSE)>>

_draw_tomador ==
  <<Step("tomador_gate", "gate", "tomador", FALSE),
    Step("tomador_campos", "fields", "tomador", FALSE),
    Step("tomador_medida", "measure", "tomador", FALSE),
    Step("tomador_grow", "grow", "tomador", FALSE),
    Step("tomador_endereco", "value", "tomador", FALSE),
    Step("tomador_lookup", "lookup", "tomador", TRUE),
    Step("tomador_resto", "fields", "tomador", FALSE)>>

_draw_intermediario ==
  <<Step("intermediario_gate", "gate", "intermediario", FALSE),
    Step("intermediario_campos", "fields", "intermediario", FALSE),
    Step("intermediario_medida", "measure", "intermediario", FALSE),
    Step("intermediario_grow", "grow", "intermediario", FALSE),
    Step("intermediario_endereco", "value", "intermediario", FALSE),
    Step("intermediario_lookup", "lookup", "intermediario", FALSE),
    Step("intermediario_resto", "fields", "intermediario", FALSE)>>

\* Variant of _draw_servico: the description is drawn before the section
\* is grown
_draw_servico_GrowLast ==
  <<Step("servico_campos", "fields", "servico", TRUE),
    Step("servico_lookup", "lookup", "servico", TRUE),
    Step("servico_local", "fields", "servico", FALSE),
    Step("servico_medida", "measure", "servico", TRUE),
    Step("servico_desc", "value", "servico", FALSE),
    Step("servico_grow", "grow", "servico", FALSE)>>

_draw_servico ==
  <<Step("servico_campos", "fields", "servico", TRUE),
    Step("servico_lookup", "lookup", "servico", TRUE),
    Step("servico_local", "fields", "servico", FALSE),
    Step("servico_medida", "measure", "servico", TRUE),
    Step("servico_grow", "grow", "servico", FALSE),
    Step("servico_desc", "value", "servico", FALSE)>>

_draw_trib_municipal ==
  <<Step("trib_municipal", "fields", "tb_municipal", TRUE),
    Step("trib_municipal_lookup", "trylookup", "tb_municipal", FALSE),
    Step("trib_municipal_resto", "fields", "tb_municipal", TRUE)>>

_draw_trib_federal == <<Step("trib_federal", "fields", "trib_federal", FALSE)>>

_draw_valor_nfse == <<Step("valor_nfse", "fields", "valor_nfse", FALSE)>>

_draw_totais == <<Step("totais", "fields", "totais", FALSE)>>

_draw_info_complementar ==
  <<Step("info_complementar", "fields", "info_complementar", TRUE)>>

\* Variant of PASS: the ten rules are drawn first, the contents of the
\* sections after them
PASS_RulesFirst ==
  _draw_header
  \o _draw_horizontal_line("info_nota") \o _draw_horizontal_line("emitente")
  \o _draw_horizontal_line("tomador")
  \o _draw_horizontal_line("intermediario")
  \o _draw_horizontal_line("servico")
  \o _draw_horizontal_line("tb_municipal")
  \o _draw_horizontal_line("trib_federal")
  \o _draw_horizontal_line("valor_nfse") \o _draw_horizontal_line("totais")
  \o _draw_horizontal_line("info_complementar")
  \o _draw_info_note \o _draw_emitente \o _draw_tomador
  \o _draw_intermediario \o _draw_servico \o _draw_trib_municipal
  \o _draw_trib_federal \o _draw_valor_nfse \o _draw_totais
  \o _draw_info_complementar

\* Nfse.__init__, lines 495-537
PASS ==
  _draw_header
  \o _draw_horizontal_line("info_nota") \o _draw_info_note
  \o _draw_horizontal_line("emitente") \o _draw_emitente
  \o _draw_horizontal_line("tomador") \o _draw_tomador
  \o _draw_horizontal_line("intermediario") \o _draw_intermediario
  \o _draw_horizontal_line("servico") \o _draw_servico
  \o _draw_horizontal_line("tb_municipal") \o _draw_trib_municipal
  \o _draw_horizontal_line("trib_federal") \o _draw_trib_federal
  \o _draw_horizontal_line("valor_nfse") \o _draw_valor_nfse
  \o _draw_horizontal_line("totais") \o _draw_totais
  \o _draw_horizontal_line("info_complementar") \o _draw_info_complementar

Labels == {PASS[i].label : i \in 1..Len(PASS)}

At(label) == CHOOSE i \in 1..Len(PASS) : PASS[i].label = label

Current == PASS[At(pc)]

\* The step after step number i; "done" after the last one
Following(i) == IF i < Len(PASS) THEN PASS[i + 1].label ELSE "done"

\* return from a _draw_* method: the next _draw_horizontal_line after step i
RECURSIVE ReturnFrom(_)
ReturnFrom(i) ==
  IF i >= Len(PASS) THEN "done"
  ELSE IF PASS[i + 1].op = "line" THEN PASS[i + 1].label
       ELSE ReturnFrom(i + 1)

(***************************************************************************)
(* The source document, as far as the layout depends on it, and the        *)
(* answer of the municipality service.  A pass has at most one anomaly:    *)
(* falha names the step it shows at and modo says what it is               *)
(*   dados       a group or a text the step reads is not in the XML        *)
(*   nulo        a tag whose text the step hands to Layout is not there,   *)
(*               or holds a code the de_para tables do not know            *)
(*   non200      the lookup of the step is answered with a status other    *)
(*               than 200                                                  *)
(*   malformada  the answer is 200 but not the JSON the step reads         *)
(*   excecao     requests.get itself raises                                *)
(***************************************************************************)
\* Most lines a wrapped text is given
MaxLinhas == 3

LookupModos == {"non200", "malformada", "excecao"}

\* Steps that hand the text of an optional tag or the result of a de_para
\* table to a value accessor
NullableSteps ==
  {"info_note", "emitente_resto", "tomador_campos", "intermediario_campos"}

\* The anomalies the step number i of the pass can show
Modos(i) ==
  (IF PASS[i].raises THEN {"dados"} ELSE {})
  \cup (IF PASS[i].op \in {"lookup", "trylookup"} THEN LookupModos ELSE {})
  \cup (IF PASS[i].label \in NullableSteps THEN {"nulo"} ELSE {})

Anomalias ==
  {[falha |-> "none", modo |-> "none"]}
  \cup UNION {{[falha |-> PASS[i].label, modo |-> m] : m \in Modos(i)} :
              i \in 1..Len(PASS)}

SecOf(label) == PASS[CHOOSE i \in 1..Len(PASS) : PASS[i].label = label].sec

\* toma_cnpj, interm_cnpj: the party carries a CNPJ
\* toma_cpf, interm_cpf: the party carries no CNPJ, but a CPF or a NIF
\* toma_linhas, interm_linhas: len(endereco_linhas) of the party
\* desc_list: len(desc_list);  resto_linhas: len(lista_linhas)
\* falha, modo: the anomaly of the pass
Docs ==
  {d \in [toma_cnpj : BOOLEAN, toma_cpf : BOOLEAN, toma_linhas : 0..MaxLinhas,
          interm_cnpj : BOOLEAN, interm_cpf : BOOLEAN,
          interm_linhas : 1..MaxLinhas,
          desc_list : 1..2, resto_linhas : 0..MaxLinhas,
          falha : {"none"} \cup {PASS[i].label : i \in 1..Len(PASS)},
          modo : {"none", "dados", "nulo"} \cup LookupModos] :
     /\ [falha |-> d.falha, modo |-> d.modo] \in Anomalias
     /\ d.toma_cnpj => ~d.toma_cpf
     /\ d.interm_cnpj => ~d.interm_cpf
     /\ ~d.toma_cnpj =>
          d.toma_linhas = 1 /\ (d.falha # "none" => SecOf(d.falha) # "tomador")
     /\ ~d.interm_cnpj =>
          /\ d.interm_linhas = 1
          /\ d.falha # "none" => SecOf(d.falha) # "intermediario"
     /\ d.desc_list = 1 => d.resto_linhas = 0}

\* Nfse._exclude_sections
_exclude_sections(d) ==
  (IF ~d.interm_cnpj THEN {"intermediario"} ELSE {})
  \cup (IF ~d.toma_cnpj THEN {"tomador"} ELSE {})

\* Variant of AddHeight: the test on the number of lines is left out
AddHeight_NoTest(linhas, line_height) == (linhas - 1) * line_height

\* add_height of _draw_tomador and _draw_intermediario
AddHeight(linhas, line_height) ==
  IF linhas > 1 THEN (linhas - 1) * line_height ELSE 0

\* len(lista_final) of _draw_servico
ListaFinal(d) == IF d.desc_list > 1 THEN 1 + d.resto_linhas ELSE d.desc_list

\* add_height of the section being drawn
add_height(sec, d, line_height) ==
  IF sec = "tomador" THEN AddHeight(d.toma_linhas, line_height)
  ELSE IF sec = "intermediario" THEN AddHeight(d.interm_linhas, line_height)
  ELSE IF d.desc_list > 1 THEN (ListaFinal(d) - 1) * line_height ELSE 0

(***************************************************************************)
(* Values the renderer hands to the value accessors.  None is Python's     *)
(* None: find_tag_text of a tag that is not there, and the result of a     *)
(* function that ends without return.                                      *)
(***************************************************************************)
\* The text of the optional tag the step at label reads
TagText(d, label, text) ==
  IF d.falha = label /\ d.modo = "nulo" THEN None ELSE text

\* x if x else fallback
OrElse(x, fallback) == IF x = None \/ x = "" THEN fallback ELSE x

\* nfse.py de_para_op_simp_nac: the last branch evaluates '-' and falls off
\* the end of the function
de_para_op_simp_nac(value) ==
  IF value = "1" THEN "Nao optante"
  ELSE IF value = "2" THEN "Optante - Microempreendor Individual (MEI)"
  ELSE IF value = "3"
       THEN "Optante - Micro Empresa de Pequeno Porte (ME/EPP)"
       ELSE None

\* de_para.py de_para_reg_esp_trib: the same last branch
de_para_reg_esp_trib(value) ==
  IF value = "0" THEN "Nenhum"
  ELSE IF value = "1" THEN "Ato Cooperado (Cooperativa)"
  ELSE IF value = "2" THEN "Estimativa"
  ELSE IF value = "3" THEN "Micro Empresa Municipal"
  ELSE IF value = "4" THEN "Notario ou Registrador"
  ELSE IF value = "5" THEN "Profissional Autonomo"
  ELSE IF value = "6" THEN "Sociedade de Profissionais"
  ELSE None

\* formatar_cnpj_cpf_nif, formatar_cep, formatar_telefone on None
formatar(value) == IF value = None THEN "-" ELSE value

\* The values the step at label hands to value accessors of Layout
Passed(d, label) ==
  IF label = "info_note"
  THEN <<TagText(d, label, "42"), TagText(d, label, "7")>>
  ELSE IF label = "emitente_resto"
  THEN <<de_para_op_simp_nac(OrElse(TagText(d, label, "1"), "")),
         de_para_reg_esp_trib(OrElse(TagText(d, label, "0"), ""))>>
  ELSE IF label = "tomador_campos"
  THEN <<OrElse(TagText(d, label, "1234"), "")>>
  ELSE IF label = "intermediario_campos"
  THEN <<formatar(TagText(d, label, "12345678000190")),
         TagText(d, label, "1234")>>
  ELSE <<>>

Event(ev, sec, y, data, values) ==
  [ev |-> ev, sec |-> sec, y |-> y, data |-> data, values |-> values]

RenderInit ==
  /\ doc \in Docs
  /\ exclude_sections = _exclude_sections(doc)
  /\ positions = calculate_positions(exclude_sections)
  /\ calls = <<>>
  /\ ret = NoRet
  /\ pc = PASS[1].label
  /\ log = <<>>

\* The step at pc does op
Doing(op) == pc \in Labels /\ Current.op = op

\* The anomaly of the pass shows at the step at pc and is modo
Anomalia(modo) == doc.falha = pc /\ doc.modo = modo

\* An exception leaves the pass
Raise ==
  /\ pc' = "aborted"
  /\ UNCHANGED <<positions, exclude_sections, calls, ret, doc, log>>

\* Variant of auto_page_break: the library default
auto_page_break_On == TRUE

\* line 202: set_auto_page_break(auto=False, margin=config.margins.bottom)
auto_page_break == FALSE

\* The page height less the bottom margin
page_break_trigger == Num(297) - Num(3)

\* The test cell and multi_cell make before they draw at y with height h
WillPageBreak(y, h) == auto_page_break /\ y + h > page_break_trigger

\* The log after the cells of section sec have made that test; the cells
\* of a section reach down to the end of the section
Paged(sec) ==
  IF WillPageBreak(positions[sec].y, positions[sec].height)
  THEN Append(log, Event("add_page", sec, top_margin, 0, <<>>))
  ELSE log

\* The descriptors of a step are drawn at offsets from the origin y
Draw(ev, y, values) ==
  /\ log' = Append(Paged(Current.sec), Event(ev, Current.sec, y, 0, values))
  /\ pc' = Following(At(pc))
  /\ UNCHANGED <<positions, exclude_sections, calls, ret, doc>>

DrawStatic ==
  /\ Doing("static")
  /\ IF Anomalia("dados") THEN Raise
     ELSE Draw("static", Layout_svg_to_pdf_y(Num(100)), Passed(doc, pc))

\* _draw_horizontal_line: a ValueError is printed and the line is skipped
DrawHorizontalLine ==
  /\ Doing("line")
  /\ LET line_element == get_horizontal_line(positions, Current.sec)
     IN /\ ret' = [op |-> "get_horizontal_line", name |-> Current.sec,
                   value |-> "", result |-> line_element]
        /\ log' = IF line_element.raised THEN log
                  ELSE Append(log, Event("line", Current.sec,
                                         line_element.y, 0, <<>>))
  /\ pc' = Following(At(pc))
  /\ UNCHANGED <<positions, exclude_sections, calls, doc>>

DrawFields ==
  /\ Doing("fields")
  /\ LET r == get_section_y(positions, Current.sec)
     IN IF Anomalia("dados") \/ r.raised THEN Raise
        ELSE Draw("fields", r.y, Passed(doc, pc))

\* Variant of Gate: the return after the label of an excluded section is
\* left out
Gate_FallThrough ==
  /\ Doing("gate")
  /\ IF Current.sec \in _exclude_sections(doc)
     THEN LET r == get_section_y(positions, Current.sec)
          IN IF r.raised THEN Raise
             ELSE /\ log' = Append(Paged(Current.sec),
                                   Event("null", Current.sec, r.y, 0, <<>>))
                  /\ pc' = Following(At(pc))
                  /\ UNCHANGED <<positions, exclude_sections, calls, ret, doc>>
     ELSE /\ pc' = Following(At(pc))
          /\ UNCHANGED <<positions, exclude_sections, calls, ret, doc, log>>

\* The test that opens _draw_tomador and _draw_intermediario: an excluded
\* section gets its one label and the method returns
Gate ==
  /\ Doing("gate")
  /\ IF Current.sec \in _exclude_sections(doc)
     THEN LET r == get_section_y(positions, Current.sec)
          IN IF r.raised THEN Raise
             ELSE /\ log' = Append(Paged(Current.sec),
                                   Event("null", Current.sec, r.y, 0, <<>>))
                  /\ pc' = ReturnFrom(At(pc))
                  /\ UNCHANGED <<positions, exclude_sections, calls, ret, doc>>
     ELSE /\ pc' = Following(At(pc))
          /\ UNCHANGED <<positions, exclude_sections, calls, ret, doc, log>>

\* municipio of a lookup: data["nome"] of a 200 answer, "" otherwise
Municipio == IF doc.falha = pc THEN "" ELSE "Florianopolis"

\* A lookup outside any try: only the status code is tested
Lookup ==
  /\ Doing("lookup")
  /\ IF Anomalia("dados") \/ Anomalia("malformada") \/ Anomalia("excecao")
     THEN Raise
     ELSE Draw("lookup", get_section_y(positions, Current.sec).y,
               <<Municipio>>)

\* The lookup of _draw_trib_municipal: except Exception sets municipio = ""
TryLookup ==
  /\ Doing("trylookup")
  /\ Draw("lookup", get_section_y(positions, Current.sec).y, <<Municipio>>)

Measure ==
  /\ Doing("measure")
  /\ LET element == MeasuredValue(positions, Current.sec, "")
     IN IF Anomalia("dados") \/ element.raised THEN Raise
        ELSE Draw("measure", get_section_y(positions, Current.sec).y, <<>>)

Grow ==
  /\ Doing("grow")
  /\ LET element == MeasuredValue(positions, Current.sec, "")
         data == add_height(Current.sec, doc, element.line_height)
         sections == <<Entry(Current.sec, data)>>
         r == _recalculate_positions(positions, sections)
     IN /\ positions' = r.positions
        /\ calls' = Append(calls, [sections |-> sections, pre |-> positions,
                                   raised |-> r.raised])
        /\ log' = Append(log, Event("grow", Current.sec,
                                    positions[Current.sec].y, data, <<>>))
        /\ pc' = IF r.raised THEN "aborted" ELSE Following(At(pc))
  /\ UNCHANGED <<exclude_sections, ret, doc>>

DrawValue ==
  /\ Doing("value")
  /\ LET element == MeasuredValue(positions, Current.sec, "texto")
     IN IF element.raised THEN Raise
        ELSE Draw("value", get_section_y(positions, Current.sec).y,
                  <<element.value>>)

RenderNext ==
  \/ DrawStatic
  \/ DrawHorizontalLine
  \/ DrawFields
  \/ Gate
  \/ Lookup
  \/ TryLookup
  \/ Measure
  \/ Grow
  \/ DrawValue

RenderSpec == RenderInit /\ [][RenderNext]_vars

(***************************************************************************)
(* History of the calls: the state a call started from and ended in        *)
(***************************************************************************)
Post(k) == IF k < Len(calls) THEN calls[k + 1].pre ELSE positions

\* The call number k grew the single section of ORDEM_SECOES it names
GrewOne(k) ==
  /\ Len(calls[k].sections) = 1
  /\ calls[k].sections[1].name \in Secoes

NextSection(s) == ORDEM_SECOES[Index(s) + 1]

Stacked(pos) ==
  \A i \in 1..(Len(ORDEM_SECOES) - 1) :
    pos[ORDEM_SECOES[i + 1]].y
      = pos[ORDEM_SECOES[i]].y + pos[ORDEM_SECOES[i]].height

(***************************************************************************)
(* C1  Stacking invariant: after calculate_positions with any excluded     *)
(* set and after any sequence of _recalculate_positions calls with         *)
(* non-negative extra heights, every section of ORDEM_SECOES but the first *)
(* starts exactly where the section before it ends.                        *)
(***************************************************************************)
C1_Stacking == Stacked(positions)

C1_Witness ==
  /\ Len(calls) = 2
  /\ GrewOne(1) /\ GrewOne(2)
  /\ calls[1].sections[1].name = "servico"
  /\ calls[2].sections[1].name = "tomador"
  /\ calls[1].sections[1].data > 0 /\ calls[2].sections[1].data > 0
  /\ exclude_sections = {"intermediario"}

(***************************************************************************)
(* C2  Effect and frame of one growth of a section n of ORDEM_SECOES by    *)
(* d >= 0: the height of n grows by exactly d, the origin of every section *)
(* after n moves down by exactly d, and nothing else changes (the origin   *)
(* of n, the sections before n, every other height, every x, the header,   *)
(* the set of names).  With d = 0 nothing changes at all; growing the last *)
(* section moves no origin.                                                *)
(***************************************************************************)
GrowthEffect(pre, post, n, d) ==
  /\ DOMAIN post = DOMAIN pre
  /\ post[n].height = pre[n].height + d
  /\ post[n].y = pre[n].y
  /\ \A s \in Secoes :
       /\ Index(s) > Index(n) => post[s].y = pre[s].y + d
       /\ Index(s) < Index(n) => post[s] = pre[s]
       /\ s # n => post[s].height = pre[s].height
  /\ \A s \in DOMAIN pre : post[s].x = pre[s].x
  /\ post["header"] = pre["header"]
  /\ d = 0 => post = pre
  /\ Index(n) = Len(ORDEM_SECOES) => \A s \in DOMAIN pre : post[s].y = pre[s].y

C2_GrowthEffect ==
  \A k \in 1..Len(calls) :
    GrewOne(k) =>
      /\ ~calls[k].raised
      /\ GrowthEffect(calls[k].pre, Post(k), calls[k].sections[1].name,
                      calls[k].sections[1].data)

C2_Witness ==
  /\ Len(calls) = 1
  /\ GrewOne(1)
  /\ calls[1].sections[1] = Entry("servico", Num(6))
  /\ positions["tb_municipal"].y = calls[1].pre["tb_municipal"].y + Num(6)
  /\ positions["info_complementar"].y
       = calls[1].pre["info_complementar"].y + Num(6)

(***************************************************************************)
(* C3  Growth is additive: growing a section of ORDEM_SECOES by a and then *)
(* by b leaves exactly the state that one growth by a + b of the state     *)
(* before the two calls leaves.                                            *)
(***************************************************************************)
C3_Additive ==
  \A k \in 1..(Len(calls) - 1) :
    (/\ GrewOne(k) /\ GrewOne(k + 1)
     /\ calls[k].sections[1].name = calls[k + 1].sections[1].name)
    => Post(k + 1)
         = _recalculate_positions(
             calls[k].pre,
             <<Entry(calls[k].sections[1].name,
                     calls[k].sections[1].data
                       + calls[k + 1].sections[1].data)>>).positions

C3_Witness ==
  /\ Len(calls) = 2
  /\ calls[1].sections = <<Entry("servico", Num(4))>>
  /\ calls[2].sections = <<Entry("servico", Num(6))>>
  /\ positions["servico"].height = calls[1].pre["servico"].height + Num(10)
  /\ positions["totais"].y = calls[1].pre["totais"].y + Num(10)

(***************************************************************************)
(* C4  Exclusion collapse, as claimed for every section of ORDEM_SECOES,   *)
(* the first included: right after calculate_positions a section named in  *)
(* exclude_sections has the placeholder height, the section after it       *)
(* starts at its origin plus the placeholder height, and that is strictly  *)
(* above where it starts when the section is not excluded.                 *)
(***************************************************************************)
\* The height the layout stores for a section found in exclude_sections
PlaceholderHeight == PX_TO_MM(BASE_HEIGHT)

Collapsed(s) ==
  /\ positions[s].height = PlaceholderHeight
  /\ Index(s) < Len(ORDEM_SECOES) =>
       /\ positions[NextSection(s)].y = positions[s].y + PlaceholderHeight
       /\ positions[NextSection(s)].y
            < calculate_positions(exclude_sections \ {s})[NextSection(s)].y

C4_ExclusionCollapse ==
  calls = <<>> => \A s \in exclude_sections \cap Secoes : Collapsed(s)

(***************************************************************************)
(* C5  A growth call for a name outside ORDEM_SECOES (a name nobody        *)
(* registered, or the registered pseudo-section "header") raises           *)
(* ValueError and leaves every height and origin as it was.                *)
(***************************************************************************)
C5_UnknownNameRaises ==
  \A k \in 1..Len(calls) :
    (/\ Len(calls[k].sections) = 1
     /\ calls[k].sections[1].name \notin Secoes)
    => /\ calls[k].raised
       /\ Post(k) = calls[k].pre

C5_Witness ==
  /\ Len(calls) = 2
  /\ calls[1].sections = <<Entry("header", Num(4))>>
  /\ calls[2].sections = <<Entry("rodape", Num(6))>>
  /\ calls[1].raised /\ calls[2].raised
  /\ positions = calculate_positions(exclude_sections)

(***************************************************************************)
(* C8  Initial stack: right after calculate_positions, whatever the        *)
(* excluded set, info_nota starts at the design Y 100 px, that is at       *)
(* top_margin + (100 - 65) * PX_TO_MM; with nothing excluded every section *)
(* has its nominal height SVG_HEIGHTS_ALL[name] * PX_TO_MM and starts at   *)
(* the origin of the section before it plus that section's nominal height. *)
(***************************************************************************)
NominalHeight(s) == PX_TO_MM(SVG_HEIGHTS_ALL[s])

C8_InitialStack ==
  calls = <<>> =>
    /\ positions["info_nota"].y = top_margin + PX_TO_MM(Num(100) - Num(65))
    /\ exclude_sections = {} =>
         /\ \A s \in Secoes : positions[s].height = NominalHeight(s)
         /\ \A i \in 1..(Len(ORDEM_SECOES) - 1) :
              positions[ORDEM_SECOES[i + 1]].y
                = positions[ORDEM_SECOES[i]].y + NominalHeight(ORDEM_SECOES[i])

C8_Witness ==
  /\ calls = <<>>
  /\ pc = "api"
  /\ exclude_sections = {}
  /\ positions["emitente"].y
       = positions["info_nota"].y + NominalHeight("info_nota")

(***************************************************************************)
(* C6  Asking for the origin, or for the horizontal rule, of a name that   *)
(* is not registered in the PositionManager raises ValueError: no default  *)
(* position is returned for it: a position that is returned is the origin *)
(* the PositionManager holds for that name.                                *)
(***************************************************************************)
C6_UnregisteredRaises ==
  ret.op \notin {"none", "get_static"} =>
    /\ ret.name \notin DOMAIN positions => ret.result.raised
    /\ (ret.op \in {"get_section_y", "get_horizontal_line"}
        /\ ~ret.result.raised)
       => ret.result.y = positions[ret.name].y

C6_Witness ==
  /\ ret.op = "get_horizontal_line"
  /\ ret.name = "rodape"
  /\ ret.result.raised
  /\ Len(calls) > 0

(***************************************************************************)
(* Helpers for the claims about the rendering pass                         *)
(***************************************************************************)
\* Sections the renderer measures and grows
Growable == {"tomador", "intermediario", "servico"}

\* Place of the section of an event in the pass; the header comes first
SecIndex(sec) == IF sec = "header" THEN 0 ELSE Index(sec)

GrowEvents(S) == {i \in DOMAIN log : log[i].ev = "grow" /\ log[i].sec = S}

\* Lines of the wrapped value of S beyond the first one
ExtraLines(S) ==
  LET n == IF S = "tomador" THEN doc.toma_linhas
           ELSE IF S = "intermediario" THEN doc.interm_linhas
           ELSE IF doc.desc_list = 1 THEN 1 ELSE 1 + doc.resto_linhas
  IN IF n = 0 THEN 0 ELSE n - 1

(***************************************************************************)
(* C7  Monotonic growth.  In every step of a rendering pass, a delta that  *)
(* is handed to _recalculate_positions is >= 0, and the height of no       *)
(* section decreases.                                                      *)
(***************************************************************************)
C7_MonotonicGrowth ==
  [][/\ \A S \in DOMAIN positions :
          positions'[S].height >= positions[S].height
     /\ Len(calls') > Len(calls) =>
          LET sections == calls'[Len(calls')].sections
          IN \A k \in DOMAIN sections : sections[k].data >= 0]_vars

\* A finished pass in which the address of the tomador was empty (no line
\* at all) and the description of the service took three lines
C7_Witness ==
  /\ pc = "done"
  /\ doc.toma_cnpj /\ doc.toma_linhas = 0
  /\ doc.resto_linhas = 2
  /\ Len(calls) = 2
  /\ positions["tomador"].height = calls[1].pre["tomador"].height
  /\ positions["servico"].height = calls[2].pre["servico"].height + Num(8)

(***************************************************************************)
(* C9  Renderer ordering protocol.  The sections are drawn in the order of *)
(* ORDEM_SECOES and no earlier section is used again; the wrapped value of *)
(* a growable section is drawn after the growth call for that section;     *)
(* the growth call for a section is never made after something of a later  *)
(* section was requested, and when the section is not excluded, the        *)
(* growth call comes before the horizontal rule and every accessor of      *)
(* every later section.                                                    *)
(***************************************************************************)
C9_OrderingProtocol ==
  /\ \A i, j \in DOMAIN log :
       i < j => SecIndex(log[i].sec) <= SecIndex(log[j].sec)
  /\ \A j \in DOMAIN log :
       log[j].ev = "value" =>
         \E i \in 1..(j - 1) : log[i].ev = "grow" /\ log[i].sec = log[j].sec
  /\ \A S \in Growable : \A j \in DOMAIN log :
       SecIndex(log[j].sec) > Index(S) =>
         /\ \A i \in GrowEvents(S) : i < j
         /\ S \notin exclude_sections => \E i \in GrowEvents(S) : i < j

\* A finished pass with tomador and intermediario present, in which all
\* three growable sections were grown by more than nothing
C9_Witness ==
  /\ pc = "done"
  /\ exclude_sections = {}
  /\ \A S \in Growable :
       \E i \in GrowEvents(S) : log[i].data > 0
  /\ log[Len(log)].sec = "info_complementar"

(***************************************************************************)
(* C10  Call-once contract.  In a rendering pass the growth operation is   *)
(* called at most once for servico and for a tomador or intermediario that *)
(* is not excluded, and never for an excluded section or for any other     *)
(* section; when the pass has finished it was called exactly once for each *)
(* of the former, and the one call passed the whole delta: the height of   *)
(* the section is its initial height plus one line height for every line   *)
(* of the wrapped value beyond the first.                                  *)
(***************************************************************************)
C10_CallOnce ==
  /\ \A S \in Secoes :
       Cardinality(GrowEvents(S)) <=
         (IF S \in Growable \ exclude_sections THEN 1 ELSE 0)
  /\ \A k \in DOMAIN calls :
       /\ Len(calls[k].sections) = 1
       /\ calls[k].sections[1].name \in Growable \ exclude_sections
  /\ Len(calls) = Cardinality(UNION {GrowEvents(S) : S \in Secoes})
  /\ pc = "done" =>
       \A S \in Growable \ exclude_sections :
         /\ Cardinality(GrowEvents(S)) = 1
         /\ \A i \in GrowEvents(S) : log[i].data = ExtraLines(S) * Num(4)
         /\ positions[S].height =
              calculate_positions(exclude_sections)[S].height
                + ExtraLines(S) * Num(4)

\* A finished pass without intermediario: tomador and servico were grown,
\* tomador by one more line
C10_Witness ==
  /\ pc = "done"
  /\ exclude_sections = {"intermediario"}
  /\ doc.toma_linhas = 2
  /\ Len(calls) = 2
  /\ calls[1].sections = <<Entry("tomador", Num(4))>>
  /\ calls[2].sections[1].name = "servico"

(***************************************************************************)
(* C11  Presence gating of the optional parties.  For tomador and          *)
(* intermediario: the section is excluded at the construction of the       *)
(* Layout exactly when the party is absent from the document, that is,     *)
(* when it carries none of CNPJ, CPF and NIF; the "not identified" label   *)
(* is drawn only for an absent party; and the section of a party that is   *)
(* present has at least its nominal height.                                *)
(***************************************************************************)
Presente(S) ==
  IF S = "tomador" THEN doc.toma_cnpj \/ doc.toma_cpf
  ELSE doc.interm_cnpj \/ doc.interm_cpf

C11_PresenceGating ==
  \A S \in {"tomador", "intermediario"} :
    /\ S \in exclude_sections <=> ~Presente(S)
    /\ (\E i \in DOMAIN log : log[i].ev = "null" /\ log[i].sec = S)
         => ~Presente(S)
    /\ Presente(S) => positions[S].height >= PX_TO_MM(SVG_HEIGHTS_ALL[S])

(***************************************************************************)
(* C12  Accessors do not mutate the layout state.  A step that is not a    *)
(* growth call - a call of get_section_y, of get_horizontal_line or of a   *)
(* descriptor accessor, returning or raising - leaves x, y and height of   *)
(* every section as they were.                                             *)
(***************************************************************************)
C12_AccessorsDoNotMutate ==
  [][Len(calls') = Len(calls) => positions' = positions]_vars

\* After a growth call, a descriptor was returned and then the horizontal
\* rule of an unregistered name was refused; the positions are still the
\* ones the growth call left
C12_Witness ==
  /\ Len(calls) > 0
  /\ calls[Len(calls)].sections[1].data > 0
  /\ ret # NoRet /\ ret.op = "get_horizontal_line" /\ ret.result.raised
  /\ log = <<"again">>
  /\ positions = _recalculate_positions(calls[Len(calls)].pre,
                                        calls[Len(calls)].sections).positions

(***************************************************************************)
(* C13  Accessor idempotence.  When an accessor is called twice in a row   *)
(* with the same argument and no growth call in between, the second call   *)
(* returns what the first returned: the same x and y, or the same          *)
(* refusal.                                                                *)
(***************************************************************************)
C13_Idempotent ==
  [][(/\ ret # NoRet /\ ret' # NoRet
      /\ ret'.op = ret.op /\ ret'.name = ret.name /\ ret'.value = ret.value)
     => /\ ret'.result.raised = ret.result.raised
        /\ ~ret.result.raised =>
             /\ ret'.result.y = ret.result.y
             /\ ret.op # "get_section_y" => ret'.result.x = ret.result.x]_vars

\* The descriptor of the service description was requested twice in a row
\* after the section servico had grown
C13_Witness ==
  /\ log = <<"again">>
  /\ ret.op = "get_value" /\ ret.name = "servico" /\ ~ret.result.raised
  /\ \E k \in DOMAIN calls : calls[k].sections = <<Entry("servico", Num(4))>>

(***************************************************************************)
(* C14  Value pass-through.  The descriptor a value accessor returns       *)
(* carries, as its value, exactly the value the caller handed in.          *)
(***************************************************************************)
C14_ValuePassThrough ==
  (ret # NoRet /\ ret.op \in {"get_value", "get_email_value"}
   /\ ~ret.result.raised)
    => ret.result.value = ret.value

(***************************************************************************)
(* Helpers for the claims about the horizontal rule                        *)
(***************************************************************************)
\* Sum of the deltas of the growth calls among the first j events of the
\* pass that grew a section before S
RECURSIVE GrownBefore(_, _)
GrownBefore(j, S) ==
  IF j = 0 THEN 0
  ELSE GrownBefore(j - 1, S)
       + (IF log[j].ev = "grow" /\ Index(log[j].sec) < Index(S)
          THEN log[j].data ELSE 0)

\* The rule the renderer got last is at the origin its section has now,
\* which is the initial origin moved by all growth so far; the events of a
\* section follow its rule
RuleAtOrigin ==
  /\ (ret # NoRet /\ ~ret.result.raised) =>
       /\ ret.result.y = positions[ret.name].y
       /\ ret.result.y2 = ret.result.y
       /\ ret.result.y = calculate_positions(exclude_sections)[ret.name].y
                           + GrownBefore(Len(log), ret.name)
  /\ \A j \in DOMAIN log :
       /\ log[j].ev = "line" => (j = 1 \/ log[j - 1].sec # log[j].sec)
       /\ (log[j].ev # "line" /\ log[j].sec # "header") =>
            (j > 1 /\ log[j - 1].sec = log[j].sec)

C16_MissingDataNeverError ==
  doc.modo \in {"none", "dados", "nulo"} => pc # "aborted"

(***************************************************************************)
(* C17  Lookup failure containment.  When the municipality lookup of a     *)
(* step fails - a status other than 200, an answer the step cannot read,   *)
(* or the call raising - the municipality of that step is the empty        *)
(* string and the pass does not end in an exception.                       *)
(***************************************************************************)
C17_LookupFailureContained ==
  doc.modo \in LookupModos =>
    /\ pc # "aborted"
    /\ \A j \in DOMAIN log :
         (log[j].ev = "lookup" /\ log[j].sec = SecOf(doc.falha))
           => log[j].values = <<"">>

(***************************************************************************)
(* C19  Header pseudo-section.  The entry 'header' starts at the top       *)
(* margin of the page and ends where the first section, info_nota,         *)
(* starts.                                                                 *)
(***************************************************************************)
C19_HeaderSpan ==
  /\ positions["header"].y = top_margin
  /\ positions["header"].y + positions["header"].height
       = positions["info_nota"].y

(***************************************************************************)
(* C20  Values reaching Layout are never null.  No value the renderer      *)
(* hands to a value accessor is None: the text of an absent tag and an     *)
(* unknown code are replaced by '-' or '' before the call.                 *)
(***************************************************************************)
C20_ValuesNeverNull ==
  \A j \in DOMAIN log :
    \A k \in DOMAIN log[j].values : log[j].values[k] # None

(***************************************************************************)
(* C21  Header and info-note descriptors are growth-independent.  Whatever *)
(* growth calls were made before it, a get_header_* or get_info_note_*     *)
(* accessor returns the descriptor it returns right after construction,    *)
(* and the y of an info-note descriptor keeps the distance from the        *)
(* info_nota origin held by the PositionManager that it had then.          *)
(***************************************************************************)
C21_StaticDescriptors ==
  ret.op = "get_static" =>
    LET before == calculate_positions(exclude_sections)
        first == StaticDescriptor(before, ret.name, ret.value)
    IN /\ ~ret.result.raised
       /\ ret.result.x = first.x
       /\ ret.result.y = first.y
       /\ ret.name \in InfoNoteAccessors =>
            ret.result.y - positions["info_nota"].y
              = first.y - before["info_nota"].y

\* an info-note accessor is called after the info note and a later section
\* have grown
C21_Witness ==
  /\ ret.op = "get_static"
  /\ ret.name = "get_info_note_number_dps_value"
  /\ Len(calls) = 2
  /\ calls[1].sections = <<Entry("info_nota", Num(4))>>
  /\ calls[2].sections = <<Entry("tomador", Num(4))>>
  /\ positions["emitente"].y
       = calculate_positions(exclude_sections)["emitente"].y + Num(4)

(***************************************************************************)
(* C22  Unit conversion round trip.  Converting a design-pixel Y to page   *)
(* millimetres and back with the same top margin gives the value started   *)
(* from, and so does converting a page Y to design pixels and back.        *)
(***************************************************************************)
C22_RoundTrip ==
  (ret # NoRet /\ ret.back) => ret.result = ret.origin

\* both round trips have been made from a value that is not a fixed point
\* of either conversion
C22_Witness ==
  /\ ret # NoRet
  /\ ret.back
  /\ ret.top = Num(3)
  /\ ret.arg # ret.origin
  /\ \/ ret.op = "_pdf_to_svg_y" /\ ret.origin = Num(780)
     \/ ret.op = "_svg_to_pdf_y" /\ ret.origin = Num(250)

(***************************************************************************)
(* C23  Sections are never removed or reordered.  After calculate_         *)
(* positions with any excluded set and after any sequence of growth calls  *)
(* with non-negative deltas, the registered names are exactly the ten      *)
(* sections of ORDEM_SECOES and 'header', excluded sections included, and  *)
(* the origin y is strictly increasing along ORDEM_SECOES.                 *)
(***************************************************************************)
C23_NeverRemovedOrReordered ==
  /\ DOMAIN positions = Secoes \cup {"header"}
  /\ \A i \in 1..(Len(ORDEM_SECOES) - 1) :
       positions[ORDEM_SECOES[i]].y < positions[ORDEM_SECOES[i + 1]].y

\* both parties are excluded, and a growth by zero and a growth of an
\* excluded section have been made
C23_Witness ==
  /\ exclude_sections = {"tomador", "intermediario"}
  /\ Len(calls) = 2
  /\ calls[1].sections = <<Entry("servico", Num(0))>>
  /\ calls[2].sections = <<Entry("tomador", Num(4))>>
  /\ ~calls[2].raised

(***************************************************************************)
(* C24  Unbounded growth.  No growth call of a pass is refused or clamped: *)
(* the end of the last section is where the initial layout put it plus     *)
(* every extra height asked for, however far down the page that is, and    *)
(* no step of the pass starts a new page.  (That a pass completes with the *)
(* last section ending below the printable page is the witness.)           *)
(***************************************************************************)
PageEnd(pos) ==
  pos["info_complementar"].y + pos["info_complementar"].height

RECURSIVE SumData(_, _)
SumData(j, events) ==
  IF j = 0 THEN 0
  ELSE SumData(j - 1, events)
       + (IF events[j].ev = "grow" THEN events[j].data ELSE 0)

C24_UnboundedGrowth ==
  pc # "api" =>
    /\ \A k \in DOMAIN calls : ~calls[k].raised
    /\ PageEnd(positions)
         = PageEnd(calculate_positions(exclude_sections))
           + SumData(Len(log), log)
    /\ \A j \in DOMAIN log : log[j].ev # "add_page"

\* a pass has completed with the last section ending below the page
C24_Witness ==
  /\ pc = "done"
  /\ PageEnd(positions) > Num(297)
  /\ doc.toma_linhas = MaxLinhas /\ doc.interm_linhas = MaxLinhas

(***************************************************************************)
(* C25  No stale positions.  Whatever of a section has been positioned -   *)
(* its horizontal rule, its title, labels and values - was positioned from *)
(* the origin the section has now, in every state of a pass and so at its  *)
(* end: the origin of a section is not changed once the first element of   *)
(* the section has been positioned.                                        *)
(***************************************************************************)
C25_NoStalePositions ==
  \A j \in DOMAIN log :
    (log[j].sec \in Secoes /\ log[j].ev # "add_page")
      => log[j].y = positions[log[j].sec].y

\* a pass has completed in which the tomador grew and the sections below
\* it were drawn
C25_Witness ==
  /\ pc = "done"
  /\ \E j \in DOMAIN log :
       /\ log[j].ev = "grow" /\ log[j].sec = "tomador" /\ log[j].data > 0
       /\ \E k \in DOMAIN log :
            k > j /\ log[k].ev = "line" /\ log[k].sec = "intermediario"
       /\ \E k \in DOMAIN log :
            k > j /\ log[k].ev = "fields" /\ log[k].sec = "intermediario"

(***************************************************************************)
(* C26  Growth on different sections commutes.  When a section A has been  *)
(* grown by a and then another section B by b, the heights and origins are *)
(* the ones that growing B by b and then A by a gives from the same state, *)
(* and the ones a single call with both entries gives, in either order of  *)
(* the entries.                                                            *)
(***************************************************************************)
C26_GrowthCommutes ==
  \A k \in 1..(Len(calls) - 1) :
    LET first == calls[k]
        second == calls[k + 1]
    IN (/\ Len(first.sections) = 1 /\ Len(second.sections) = 1
        /\ ~first.raised /\ ~second.raised
        /\ first.sections[1].name # second.sections[1].name
        /\ Stacked(first.pre))
       => LET post == Post(k + 1)
              swapped ==
                _recalculate_positions(
                  _recalculate_positions(first.pre, second.sections).positions,
                  first.sections).positions
              both == _recalculate_positions(
                        first.pre, first.sections \o second.sections).positions
              reversed == _recalculate_positions(
                            first.pre,
                            second.sections \o first.sections).positions
          IN post = swapped /\ post = both /\ post = reversed

\* a later section was grown before an earlier one, by different amounts
C26_Witness ==
  /\ Len(calls) = 2
  /\ calls[1].sections = <<Entry("servico", Num(6))>>
  /\ calls[2].sections = <<Entry("tomador", Num(4))>>
  /\ Stacked(calls[1].pre)
  /\ positions["tb_municipal"].y
       = calls[1].pre["tb_municipal"].y + Num(10)

(***************************************************************************)
(* C27  An excluded section is never grown.  In every state of a pass, a   *)
(* section registered as excluded has been named by no growth call, has    *)
(* the placeholder height, and in place of its fields at most the one      *)
(* 'not identified' label has been positioned for it (under its rule).     *)
(***************************************************************************)
C27_ExcludedNeverGrown ==
  \A S \in _exclude_sections(doc) :
    /\ S \in exclude_sections
    /\ \A k \in DOMAIN calls :
         \A e \in DOMAIN calls[k].sections : calls[k].sections[e].name # S
    /\ positions[S].height = PlaceholderHeight
    /\ \A j \in DOMAIN log : log[j].sec = S => log[j].ev \in {"line", "null"}
    /\ Cardinality({j \in DOMAIN log :
                      log[j].sec = S /\ log[j].ev = "null"}) <= 1

\* a pass has completed with the tomador excluded and its label drawn,
\* while the intermediario was present and grew
C27_Witness ==
  /\ pc = "done"
  /\ _exclude_sections(doc) = {"tomador"}
  /\ \E j \in DOMAIN log : log[j].sec = "tomador" /\ log[j].ev = "null"
  /\ \E j \in DOMAIN log :
       log[j].sec = "intermediario" /\ log[j].ev = "grow" /\ log[j].data > 0

(***************************************************************************)
(* C28  A failing growth call is all-or-nothing.  When a call of           *)
(* _recalculate_positions raises, no height and no origin is different     *)
(* from what it was before the call, wherever the unknown name stands in   *)
(* the mapping.                                                            *)
(***************************************************************************)
C28_AllOrNothing ==
  \A k \in DOMAIN calls : calls[k].raised => Post(k) = calls[k].pre

(***************************************************************************)
(* C29  The dynamic layout refines the static template.  With nothing      *)
(* excluded and before any growth call, the origin the PositionManager     *)
(* holds for each section of ORDEM_SECOES is the section's place in the    *)
(* design (SVG_POSITIONS_ALL, HorizontalLines.VECTOR_POSITIONS) converted  *)
(* to mm, and get_horizontal_line returns for it the line it would return  *)
(* from VECTOR_POSITIONS were the name not registered.                     *)
(***************************************************************************)
C29_RefinesTemplate ==
  (exclude_sections = {} /\ calls = <<>>) =>
    /\ \A n \in Secoes :
         /\ positions[n].y = _create_layout_all(top_margin, left_margin)[n].y
         /\ positions[n].y = Layout_svg_to_pdf_y(VECTOR_POSITIONS[n])
    /\ (ret.op = "get_horizontal_line" /\ ret.name \in Secoes)
         => ret.result = get_horizontal_line(EmptyPositions, ret.name)

\* the rule of the last section has been requested from the initial layout
\* of a document with both parties
C29_Witness ==
  /\ exclude_sections = {}
  /\ calls = <<>>
  /\ ret.op = "get_horizontal_line"
  /\ ret.name = "info_complementar"
  /\ ~ret.result.raised
  /\ ret.result.y = top_margin + PX_TO_MM(Num(780) - Num(65))

(***************************************************************************)
(* C30  The placeholder height is converted exactly once.  After           *)
(* calculate_positions, and before any growth, the height stored for an    *)
(* excluded section (one after the first, which never collapses) is        *)
(* BASE_HEIGHT: 40 design pixels times PX_TO_MM, in page millimetres.      *)
(***************************************************************************)
C30_PlaceholderConvertedOnce ==
  calls = <<>> =>
    \A s \in exclude_sections :
      Index(s) > 1 => positions[s].height = BASE_HEIGHT

====
